---- MODULE Spec2Model ----
(***************************************************************************)
(* Model of app.py: a Flask front end that appends notes to a Notion page. *)
(*                                                                         *)
(* Python values are tagged records; a Python str is a sequence of         *)
(* one-character strings, so that slicing, stripping and formatting are    *)
(* computed character by character.  A message built by an f-string is a   *)
(* sequence of parts: literal text chunks followed by the characters of    *)
(* the interpolated values.                                                *)
(***************************************************************************)
EXTENDS Integers, Sequences, FiniteSets, TLC

VARIABLES
    NOTION_TOKEN,   \* module global, app.py:14
    PAGE_ID,        \* module global, app.py:15
    request,        \* the request being handled (flask.request)
    pc,             \* position of the handler in its code
    config_result,  \* write_note locals config_valid, config_message
    content,        \* write_note local content
    block_id,       \* write_note local block_id
    outbound,       \* the requests.patch calls issued while handling this request
    api_response,   \* write_note local response: what requests.patch returned
    raised,         \* the exception raised inside write_note's try block, if any
    returned,       \* the responses the handler has returned for this request
    steps,          \* history: the checkpoints write_note passed, in order
    raw,            \* argument of a direct format_uuid call
    formatted       \* result of a direct format_uuid call

configVars == <<NOTION_TOKEN, PAGE_ID>>
handlerVars == <<request, pc, config_result, content, block_id, outbound,
                 api_response, raised, returned, steps>>
formatVars == <<raw, formatted>>
vars == <<NOTION_TOKEN, PAGE_ID, request, pc, config_result, content, block_id,
          outbound, api_response, raised, returned, steps, raw, formatted>>

----------------------------------------------------------------------------
(* Bounds of the model *)

\* longest raw identifier handed to format_uuid
MaxRawLen == 34
\* longest note content in a request body
MaxContentLen == 3

----------------------------------------------------------------------------
(* Python values *)

PyNone == [type |-> "NoneType"]
PyStr(s) == [type |-> "str", val |-> s]
PyInt(n) == [type |-> "int", val |-> n]
PyList(l) == [type |-> "list", val |-> l]
\* a dict is its set of <<key, value>> items
PyDict(items) == [type |-> "dict", items |-> items]
Unset == [type |-> "unset"]

\* Python truthiness of a value, as used by `not x`
Truthy(v) ==
    CASE v.type = "NoneType" -> FALSE
      [] v.type = "str" -> v.val # <<>>
      [] v.type = "int" -> v.val # 0
      [] v.type = "list" -> v.val # <<>>
      [] v.type = "dict" -> v.items # {}
      [] OTHER -> TRUE

Min(a, b) == IF a < b THEN a ELSE b

\* Python slice s[a:b] for 0 <= a, b (indices clamped to the length)
Slice(s, a, b) == SubSeq(s, Min(a, Len(s)) + 1, Min(b, Len(s)))

\* Python slice s[a:]
SliceFrom(s, a) == SubSeq(s, Min(a, Len(s)) + 1, Len(s))

\* str.isspace for one character
IsSpace(c) == c \in {" ", "\t", "\n", "\r"}

RECURSIVE lstrip(_)
lstrip(s) == IF s # <<>> /\ IsSpace(Head(s)) THEN lstrip(Tail(s)) ELSE s

RECURSIVE rstrip(_)
rstrip(s) ==
    IF s # <<>> /\ IsSpace(s[Len(s)]) THEN rstrip(SubSeq(s, 1, Len(s) - 1)) ELSE s

\* str.strip()
strip(s) == rstrip(lstrip(s))

DigitChars == <<"0", "1", "2", "3", "4", "5", "6", "7", "8", "9">>

\* str(n) for a non-negative integer: its decimal digits
RECURSIVE Decimal(_)
Decimal(n) ==
    IF n < 10 THEN <<DigitChars[n + 1]>>
    ELSE Decimal(n \div 10) \o <<DigitChars[(n % 10) + 1]>>

----------------------------------------------------------------------------
(* format_uuid, app.py:18-23 *)

format_uuid_accepts_longer(r) ==
    IF Len(r) < 32 THEN PyNone
    ELSE PyStr(Slice(r, 0, 8) \o <<"-">> \o Slice(r, 8, 12) \o <<"-">>
               \o Slice(r, 12, 16) \o <<"-">> \o Slice(r, 16, 20) \o <<"-">>
               \o SliceFrom(r, 20))

format_uuid(r) ==
    IF Len(r) # 32 THEN PyNone
    ELSE PyStr(Slice(r, 0, 8) \o <<"-">> \o Slice(r, 8, 12) \o <<"-">>
               \o Slice(r, 12, 16) \o <<"-">> \o Slice(r, 16, 20) \o <<"-">>
               \o SliceFrom(r, 20))

----------------------------------------------------------------------------
(* Messages *)

MsgTokenRequired == <<"NOTION_TOKEN environment variable is required">>
MsgPageIdRequired == <<"NOTION_PAGE_ID environment variable is required">>
MsgConfigValid == <<"Configuration valid">>
MsgEmptyContent == <<"Content cannot be empty">>
MsgInvalidPageId == <<"Invalid PAGE_ID format">>
MsgSuccess == <<"Note written successfully">>
MsgSuccessFlash == <<"Note written successfully!">>
MsgTimeout == <<"Request timeout - Notion API did not respond in time">>
MsgConnection == <<"Connection error - Unable to reach Notion API">>
MsgUnexpected == <<"An unexpected error occurred">>

\* f"Failed to write note to Notion: {response.status_code}"
MsgUpstream(status_code) == <<"Failed to write note to Notion: ">> \o Decimal(status_code)

\* f"Error: {error_message}"
ErrorFlash(error_message) == <<"Error: ">> \o error_message

----------------------------------------------------------------------------
(* validate_notion_config, app.py:25-31 *)

validate_page_id_first ==
    IF ~Truthy(PAGE_ID) THEN <<FALSE, MsgPageIdRequired>>
    ELSE IF ~Truthy(NOTION_TOKEN) THEN <<FALSE, MsgTokenRequired>>
    ELSE <<TRUE, MsgConfigValid>>

validate_notion_config ==
    IF ~Truthy(NOTION_TOKEN) THEN <<FALSE, MsgTokenRequired>>
    ELSE IF ~Truthy(PAGE_ID) THEN <<FALSE, MsgPageIdRequired>>
    ELSE <<TRUE, MsgConfigValid>>

----------------------------------------------------------------------------
(* Responses *)

\* return jsonify({"status": ..., "message": ...}), code
JsonStatus(status, message, code) ==
    [kind |-> "json", code |-> code, body |-> [status |-> status, message |-> message]]

\* flash(message, category); return redirect(url_for('index'))
RedirectWithFlash(message, category) ==
    [kind |-> "redirect", code |-> 302, location |-> "index",
     flash |-> [category |-> category, message |-> message]]

\* return jsonify({...}) in health_check: the default status, 200
HealthJson(config_valid, config_message) ==
    [kind |-> "json", code |-> 200,
     body |-> [status |-> "healthy", notion_configured |-> config_valid,
               message |-> config_message]]

\* return render_template('index.html', config_valid=..., config_message=...)
IndexPage(config_valid, config_message) ==
    [kind |-> "html", code |-> 200, template |-> "index.html",
     config_valid |-> config_valid, config_message |-> config_message]

----------------------------------------------------------------------------
(* Exceptions: the classes an exception is an instance of, and str(e) *)

Exc(name, classes, detail) == [type |-> "exception", name |-> name,
                               classes |-> classes \cup {name, "Exception"},
                               detail |-> detail]

\* werkzeug raises BadRequest from request.json when the body does not parse
BadRequest == Exc("BadRequest", {"HTTPException"},
                  <<"400 Bad Request: Failed to decode JSON object">>)
AttributeErrorGet(v) ==
    Exc("AttributeError", {}, <<"'", v.type, "' object has no attribute 'get'">>)
AttributeErrorStrip(v) ==
    Exc("AttributeError", {}, <<"'", v.type, "' object has no attribute 'strip'">>)

\* what requests.patch can raise (requests.exceptions)
ReadTimeout == Exc("ReadTimeout", {"Timeout", "RequestException"},
                   <<"Read timed out. (read timeout=10)">>)
ConnectTimeout == Exc("ConnectTimeout", {"ConnectionError", "Timeout", "RequestException"},
                      <<"Connection to api.notion.com timed out. (connect timeout=10)">>)
ConnectionError == Exc("ConnectionError", {"RequestException"},
                       <<"Failed to establish a new connection">>)
SSLError == Exc("SSLError", {"ConnectionError", "RequestException"},
                <<"certificate verify failed">>)
ChunkedEncodingError == Exc("ChunkedEncodingError", {"RequestException"},
                            <<"Connection broken: IncompleteRead">>)
PatchExceptions == {ReadTimeout, ConnectTimeout, ConnectionError, SSLError,
                    ChunkedEncodingError}

\* the HTTP statuses the external API answers with
UpstreamStatuses == {200, 201, 400, 401, 404, 429, 500, 502}

----------------------------------------------------------------------------
(* Requests *)

ContentChars == {" ", "\n", "a"}
ContentStrings == UNION {[1..n -> ContentChars] : n \in 0..MaxContentLen}

Malformed == [type |-> "malformed"]
EmptyDict == PyDict({})
ContentDict(v) == PyDict({<<"content", v>>})

\* JSON bodies: unparsable, not an object, an object without content, an
\* object whose content is a string, an object whose content is no string
JsonBodies ==
    {Malformed, PyNone, PyInt(7), PyStr(<<"a">>), PyList(<<PyStr(<<"a">>)>>), EmptyDict}
    \cup {ContentDict(PyStr(s)) : s \in ContentStrings}
    \cup {ContentDict(v) : v \in {PyNone, PyInt(7), PyList(<<>>), EmptyDict}}

\* form bodies: every value of a form field is a string
FormBodies == {EmptyDict} \cup {ContentDict(PyStr(s)) : s \in ContentStrings}

Req(route, is_json, json, form) ==
    [route |-> route, is_json |-> is_json, json |-> json, form |-> form]

WriteRequests ==
    {Req("/write", TRUE, j, EmptyDict) : j \in JsonBodies}
    \cup {Req("/write", FALSE, Unset, f) : f \in FormBodies}
Requests ==
    WriteRequests \cup {Req("/", FALSE, Unset, EmptyDict), Req("/health", FALSE, Unset, EmptyDict)}

NoRequest == [route |-> "none"]

----------------------------------------------------------------------------
(* Configuration: os.environ at process start, app.py:14-15 *)

DefaultPageId ==
    <<"2","0","2","0","b","7","0","9","6","7","e","d","8","0","3","b",
      "a","2","8","f","d","c","5","e","d","4","9","9","8","4","a","0">>

\* NOTION_TOKEN unset, set to the empty string, or set
Tokens == {PyNone, PyStr(<<>>), PyStr(<<"s","e","c","r","e","t">>)}

\* NOTION_PAGE_ID unset (the default), empty, one character short, one long
PageIds == {PyStr(DefaultPageId), PyStr(<<>>), PyStr(Slice(DefaultPageId, 0, 31)),
            PyStr(DefaultPageId \o <<"f">>)}

----------------------------------------------------------------------------
(* Evaluation inside write_note's try block: a value or a raised exception *)

Value(v) == [raises |-> FALSE, value |-> v]
Raise(e) == [raises |-> TRUE, exc |-> e]

\* d.get(key, default)
DictGet(d, key, default) ==
    IF \E item \in d.items : item[1] = key
    THEN (CHOOSE item \in d.items : item[1] = key)[2]
    ELSE default

\* request.json.get('content', '').strip(), app.py:53
JsonContent(req) ==
    IF req.json.type = "malformed" THEN Raise(BadRequest)
    ELSE IF req.json.type # "dict" THEN Raise(AttributeErrorGet(req.json))
    ELSE LET v == DictGet(req.json, "content", PyStr(<<>>))
         IN IF v.type # "str" THEN Raise(AttributeErrorStrip(v))
            ELSE Value(PyStr(strip(v.val)))

\* request.form.get('content', '').strip(), app.py:55
FormContent(req) == Value(PyStr(strip(DictGet(req.form, "content", PyStr(<<>>)).val)))

\* app.py:52-55
GetContent(req) == IF req.is_json THEN JsonContent(req) ELSE FormContent(req)

\* the except clauses of write_note in their order, app.py:115-140
HandleException_connection_first(e, is_json) ==
    LET error_message ==
            IF "ConnectionError" \in e.classes THEN MsgConnection
            ELSE IF "Timeout" \in e.classes THEN MsgTimeout
            ELSE MsgUnexpected
        code ==
            IF "ConnectionError" \in e.classes THEN 503
            ELSE IF "Timeout" \in e.classes THEN 408
            ELSE 500
    IN IF is_json THEN JsonStatus("error", error_message, code)
       ELSE RedirectWithFlash(ErrorFlash(error_message), "error")

HandleException_leaks_detail(e, is_json) ==
    LET error_message ==
            IF "Timeout" \in e.classes THEN MsgTimeout
            ELSE IF "ConnectionError" \in e.classes THEN MsgConnection
            ELSE MsgUnexpected \o e.detail
        code ==
            IF "Timeout" \in e.classes THEN 408
            ELSE IF "ConnectionError" \in e.classes THEN 503
            ELSE 500
    IN IF is_json THEN JsonStatus("error", error_message, code)
       ELSE RedirectWithFlash(ErrorFlash(error_message), "error")

HandleException_no_connection_clause(e, is_json) ==
    LET error_message ==
            IF "Timeout" \in e.classes THEN MsgTimeout
            ELSE MsgUnexpected
        code ==
            IF "Timeout" \in e.classes THEN 408
            ELSE 500
    IN IF is_json THEN JsonStatus("error", error_message, code)
       ELSE RedirectWithFlash(ErrorFlash(error_message), "error")

HandleException(e, is_json) ==
    LET error_message ==
            IF "Timeout" \in e.classes THEN MsgTimeout
            ELSE IF "ConnectionError" \in e.classes THEN MsgConnection
            ELSE MsgUnexpected
        code ==
            IF "Timeout" \in e.classes THEN 408
            ELSE IF "ConnectionError" \in e.classes THEN 503
            ELSE 500
    IN IF is_json THEN JsonStatus("error", error_message, code)
       ELSE RedirectWithFlash(ErrorFlash(error_message), "error")

\* the mapping of the external API's answer, app.py:97-113
MapResponse_2xx_is_success(status_code, is_json) ==
    IF status_code \div 100 = 2
    THEN IF is_json THEN JsonStatus("success", MsgSuccess, 200)
         ELSE RedirectWithFlash(MsgSuccessFlash, "success")
    ELSE IF is_json THEN JsonStatus("error", MsgUpstream(status_code), status_code)
         ELSE RedirectWithFlash(ErrorFlash(MsgUpstream(status_code)), "error")

MapResponse_always_json(status_code, is_json) ==
    IF status_code = 200
    THEN JsonStatus("success", MsgSuccess, 200)
    ELSE JsonStatus("error", MsgUpstream(status_code), status_code)

MapResponse(status_code, is_json) ==
    IF status_code = 200
    THEN IF is_json THEN JsonStatus("success", MsgSuccess, 200)
         ELSE RedirectWithFlash(MsgSuccessFlash, "success")
    ELSE IF is_json THEN JsonStatus("error", MsgUpstream(status_code), status_code)
         ELSE RedirectWithFlash(ErrorFlash(MsgUpstream(status_code)), "error")

\* the requests.patch call write_note builds, app.py:68-95
PatchCall(id, token, text) ==
    [method |-> "PATCH",
     url |-> <<"https://api.notion.com/v1/blocks/">> \o id \o <<"/children">>,
     headers |-> [Authorization |-> <<"Bearer ">> \o token,
                  ContentType |-> "application/json",
                  NotionVersion |-> "2022-06-28"],
     json |-> [children |-> <<[object |-> "block", type |-> "paragraph",
                               rich_text |-> <<[type |-> "text", content |-> text]>>]>>],
     timeout |-> 10]

----------------------------------------------------------------------------
(* The request handlers *)

Return(resp) == returned' = Append(returned, resp) /\ pc' = "done"

\* a request arrives once the previous one has been answered; the handler's
\* locals start unbound
Receive(req) ==
    /\ pc \in {"idle", "done"}
    /\ request' = req
    /\ pc' = req.route
    /\ config_result' = Unset
    /\ content' = Unset
    /\ block_id' = Unset
    /\ api_response' = Unset
    /\ raised' = Unset
    /\ outbound' = <<>>
    /\ returned' = <<>>
    /\ steps' = <<>>
    /\ UNCHANGED <<configVars, formatVars>>

\* index, app.py:33-39
index ==
    /\ pc = "/"
    /\ LET v == validate_notion_config
       IN Return(IndexPage(v[1], v[2]))
    /\ UNCHANGED <<configVars, formatVars, request, config_result, content, block_id,
                   outbound, api_response, raised, steps>>

\* health_check, app.py:142-150
health_check_always_configured ==
    /\ pc = "/health"
    /\ LET v == validate_notion_config
       IN Return(HealthJson(TRUE, v[2]))
    /\ UNCHANGED <<configVars, formatVars, request, config_result, content, block_id,
                   outbound, api_response, raised, steps>>

health_check ==
    /\ pc = "/health"
    /\ LET v == validate_notion_config
       IN Return(HealthJson(v[1], v[2]))
    /\ UNCHANGED <<configVars, formatVars, request, config_result, content, block_id,
                   outbound, api_response, raised, steps>>

\* write_note, app.py:45-49: validate the configuration
WriteValidate ==
    /\ pc = "/write"
    /\ LET v == validate_notion_config
       IN /\ config_result' = v
          /\ IF ~v[1]
             THEN Return(JsonStatus("error", v[2], 400)) /\ steps' = steps
             ELSE pc' = "get_content" /\ steps' = Append(steps, "config_valid")
                  /\ returned' = returned
    /\ UNCHANGED <<configVars, formatVars, request, content, block_id, outbound,
                   api_response, raised>>

\* write_note, app.py:51-59: read and trim the content, reject empty content
WriteGetContent_accepts_empty ==
    /\ pc = "get_content"
    /\ LET r == GetContent(request)
       IN IF r.raises
          THEN /\ raised' = r.exc
               /\ Return(HandleException(r.exc, request.is_json))
               /\ UNCHANGED <<content, steps>>
          ELSE /\ content' = r.value
               /\ raised' = raised
               /\ pc' = "format_id" /\ steps' = Append(steps, "content_nonempty")
               /\ returned' = returned
    /\ UNCHANGED <<configVars, formatVars, request, config_result, block_id, outbound,
                   api_response>>

WriteGetContent ==
    /\ pc = "get_content"
    /\ LET r == GetContent(request)
       IN IF r.raises
          THEN /\ raised' = r.exc
               /\ Return(HandleException(r.exc, request.is_json))
               /\ UNCHANGED <<content, steps>>
          ELSE /\ content' = r.value
               /\ raised' = raised
               /\ IF ~Truthy(r.value)
                  THEN Return(JsonStatus("error", MsgEmptyContent, 400)) /\ steps' = steps
                  ELSE pc' = "format_id" /\ steps' = Append(steps, "content_nonempty")
                       /\ returned' = returned
    /\ UNCHANGED <<configVars, formatVars, request, config_result, block_id, outbound,
                   api_response>>

\* write_note, app.py:61-65: format the page identifier
WriteFormatId ==
    /\ pc = "format_id"
    /\ LET id == format_uuid(PAGE_ID.val)
       IN /\ block_id' = id
          /\ IF ~Truthy(id)
             THEN Return(JsonStatus("error", MsgInvalidPageId, 400)) /\ steps' = steps
             ELSE pc' = "send" /\ steps' = Append(steps, "id_formatted")
                  /\ returned' = returned
    /\ UNCHANGED <<configVars, formatVars, request, config_result, content, outbound,
                   api_response, raised>>

\* write_note, app.py:67-95: build the payload and issue the outbound call
WriteSend ==
    /\ pc = "send"
    /\ outbound' = Append(outbound, PatchCall(block_id.val, NOTION_TOKEN.val, content.val))
    /\ steps' = Append(steps, "call")
    /\ pc' = "await"
    /\ UNCHANGED <<configVars, formatVars, request, config_result, content, block_id,
                   api_response, raised, returned>>

\* write_note, app.py:95-113: the external API answers with a status
WriteAnswered(status_code) ==
    /\ pc = "await"
    /\ api_response' = [type |-> "response", status_code |-> status_code]
    /\ Return(MapResponse(status_code, request.is_json))
    /\ UNCHANGED <<configVars, formatVars, request, config_result, content, block_id,
                   outbound, raised, steps>>

WriteFailed_retries(e) ==
    /\ pc = "await"
    /\ raised' = e
    /\ IF Len(outbound) < 2
       THEN pc' = "send" /\ returned' = returned
       ELSE Return(HandleException(e, request.is_json))
    /\ UNCHANGED <<configVars, formatVars, request, config_result, content, block_id,
                   outbound, api_response, steps>>

\* write_note, app.py:95 and 115-140: requests.patch raises
WriteFailed(e) ==
    /\ pc = "await"
    /\ raised' = e
    /\ Return(HandleException(e, request.is_json))
    /\ UNCHANGED <<configVars, formatVars, request, config_result, content, block_id,
                   outbound, api_response, steps>>

Init ==
    /\ NOTION_TOKEN \in Tokens
    /\ PAGE_ID \in PageIds
    /\ request = NoRequest
    /\ pc = "idle"
    /\ config_result = Unset
    /\ content = Unset
    /\ block_id = Unset
    /\ api_response = Unset
    /\ raised = Unset
    /\ outbound = <<>>
    /\ returned = <<>>
    /\ steps = <<>>
    /\ raw = <<>>
    /\ formatted = Unset

Next ==
    \/ \E req \in Requests : Receive(req)
    \/ index
    \/ health_check
    \/ WriteValidate
    \/ WriteGetContent
    \/ WriteFormatId
    \/ WriteSend
    \/ \E status_code \in UpstreamStatuses : WriteAnswered(status_code)
    \/ \E e \in PatchExceptions : WriteFailed(e)

Spec == Init /\ [][Next]_vars

----------------------------------------------------------------------------
(* Direct calls of format_uuid *)

HexChars == <<"0","1","2","3","4","5","6","7","8","9","a","b","c","d","e","f">>
MarkChars == {"A", "g", "-", " "}

\* all "0" but for one marked position
Marked(n, p, c) == [i \in 1..n |-> IF i = p THEN c ELSE "0"]
\* the hexadecimal digits in rotation
Rotated(n, off) == [i \in 1..n |-> HexChars[((i - 1 + off) % 16) + 1]]

FormatInputs ==
    {Marked(n, p, c) : n \in 0..MaxRawLen, p \in 1..MaxRawLen, c \in MarkChars}
    \cup {Rotated(n, off) : n \in 0..MaxRawLen, off \in 0..15}

CallFormatUuid ==
    /\ formatted.type = "unset"
    /\ formatted' = format_uuid(raw)
    /\ UNCHANGED <<configVars, handlerVars, raw>>

InitFormat ==
    /\ NOTION_TOKEN = PyNone
    /\ PAGE_ID = PyStr(DefaultPageId)
    /\ request = NoRequest
    /\ pc = "idle"
    /\ config_result = Unset
    /\ content = Unset
    /\ block_id = Unset
    /\ api_response = Unset
    /\ raised = Unset
    /\ outbound = <<>>
    /\ returned = <<>>
    /\ steps = <<>>
    /\ raw \in FormatInputs
    /\ formatted = Unset

NextFormat == CallFormatUuid

SpecFormat == InitFormat /\ [][NextFormat]_vars

----------------------------------------------------------------------------
(* Vocabulary of the properties, stated on the inputs and the responses *)

Whitespace == {" ", "\t", "\n", "\r"}
AllWhitespace(s) == \A i \in 1..Len(s) : s[i] \in Whitespace

\* the credential, the page identifier: present and non-empty
TokenPresent == NOTION_TOKEN.type = "str" /\ Len(NOTION_TOKEN.val) > 0
PageIdPresent == PAGE_ID.type = "str" /\ Len(PAGE_ID.val) > 0
ConfigPresent == TokenPresent /\ PageIdPresent

HasContentField(d) == \E item \in d.items : item[1] = "content"
ContentField(d) == (CHOOSE item \in d.items : item[1] = "content")[2]

\* the body is an object (or a form) whose content is missing, empty or blank
BlankIn(d) ==
    \/ ~HasContentField(d)
    \/ ContentField(d).type = "str" /\ AllWhitespace(ContentField(d).val)
ContentBlank ==
    IF request.is_json THEN request.json.type = "dict" /\ BlankIn(request.json)
    ELSE BlankIn(request.form)

\* the body is an object (or a form) whose content is a string with a
\* character that is no whitespace
TextIn(d) ==
    /\ HasContentField(d)
    /\ ContentField(d).type = "str"
    /\ ~AllWhitespace(ContentField(d).val)
ContentText ==
    IF request.is_json THEN request.json.type = "dict" /\ TextIn(request.json)
    ELSE TextIn(request.form)

Handling(route) == request.route = route /\ pc # "idle"
Answered(route) == request.route = route /\ pc = "done"
Called == Len(outbound) > 0
Resp == returned[1]

IsJson(r, code, status, message) ==
    r.kind = "json" /\ r.code = code /\ r.body.status = status /\ r.body.message = message
IsFlash(r, category, message) ==
    r.kind = "redirect" /\ r.flash.category = category /\ r.flash.message = message
ResponseMessage(r) == IF r.kind = "json" THEN r.body.message ELSE r.flash.message

IsDigit(c) == \E d \in 1..10 : DigitChars[d] = c
DigitValue(c) == (CHOOSE d \in 1..10 : DigitChars[d] = c) - 1
RECURSIVE ParseDecimal(_)
ParseDecimal(s) ==
    IF Len(s) = 0 THEN 0
    ELSE 10 * ParseDecimal(SubSeq(s, 1, Len(s) - 1)) + DigitValue(s[Len(s)])

\* the message has a maximal run of digits that reads n
IncludesNumber(m, n) ==
    \E i \in 1..Len(m) : \E j \in i..Len(m) :
        /\ \A k \in i..j : IsDigit(m[k])
        /\ (i > 1 => ~IsDigit(m[i - 1]))
        /\ (j < Len(m) => ~IsDigit(m[j + 1]))
        /\ ParseDecimal(SubSeq(m, i, j)) = n

RaisedIs(class) == raised.type = "exception" /\ class \in raised.classes

----------------------------------------------------------------------------
\* where the i-th input character (1-based) stands in the result
OutPos(i) == i + (IF i > 8 THEN 1 ELSE 0) + (IF i > 12 THEN 1 ELSE 0)
               + (IF i > 16 THEN 1 ELSE 0) + (IF i > 20 THEN 1 ELSE 0)

(* C1: format_uuid of a 32-character string is 36 characters long, has      *)
(* hyphens at the 0-based positions 8, 13, 18 and 23, and its other         *)
(* positions are the 32 input characters in their order, unchanged; of a    *)
(* string of any other length it is None.                                   *)
C1_FormatUuid ==
    formatted.type # "unset" =>
        IF Len(raw) = 32
        THEN /\ formatted.type = "str"
             /\ Len(formatted.val) = 36
             /\ \A h \in {8, 13, 18, 23} : formatted.val[h + 1] = "-"
             /\ \A i \in 1..32 : formatted.val[OutPos(i)] = raw[i]
        ELSE formatted.type = "NoneType"

\* a 32-character string that is no hexadecimal number has been formatted
C1_Witness ==
    /\ formatted.type = "str"
    /\ Len(raw) = 32
    /\ \E i \in 1..32 : raw[i] \in {"g", "A", "-"}

----------------------------------------------------------------------------
(* C2: with a valid configuration, a POST /write whose content is missing,  *)
(* empty or whitespace-only, in JSON or form mode, is answered with HTTP    *)
(* 400 and the empty-content message, and no outbound call is issued while  *)
(* the request is handled.                                                  *)
C2_EmptyContent ==
    (Handling("/write") /\ ConfigPresent /\ ContentBlank) =>
        /\ ~Called
        /\ pc = "done" => /\ Len(returned) = 1
                          /\ IsJson(Resp, 400, "error", <<"Content cannot be empty">>)

\* a form request with whitespace-only content has been answered
C2_Witness ==
    /\ Answered("/write") /\ ConfigPresent /\ ContentBlank
    /\ ~request.is_json
    /\ HasContentField(request.form) /\ Len(ContentField(request.form).val) > 0

----------------------------------------------------------------------------
(* C3: when the outbound call of a POST /write times out, a JSON request is *)
(* answered with HTTP 408 and the timeout message, and a form request with  *)
(* a redirect whose error flash carries the timeout message.                *)
C3_Timeout ==
    (Answered("/write") /\ Called /\ RaisedIs("Timeout")) =>
        /\ Len(returned) = 1
        /\ IF request.is_json
           THEN IsJson(Resp, 408, "error",
                       <<"Request timeout - Notion API did not respond in time">>)
           ELSE IsFlash(Resp, "error",
                        <<"Error: ", "Request timeout - Notion API did not respond in time">>)

\* a JSON request whose outbound call timed out while connecting has been answered
C3_Witness ==
    /\ Answered("/write") /\ Called /\ RaisedIs("Timeout") /\ RaisedIs("ConnectionError")
    /\ request.is_json

\* C3 as stated: every timed-out request is answered with HTTP 408
C3_Original ==
    (Answered("/write") /\ Called /\ RaisedIs("Timeout")) =>
        /\ Resp.code = 408
        /\ ResponseMessage(Resp)[Len(ResponseMessage(Resp))]
              = "Request timeout - Notion API did not respond in time"

----------------------------------------------------------------------------
(* C4: when the outbound call of a POST /write fails with a connection      *)
(* error that is no timeout, a JSON request is answered with HTTP 503 and   *)
(* the connectivity message, and a form request with a redirect whose error *)
(* flash carries the connectivity message; a timeout while connecting is    *)
(* answered as the timeout outcome.                                         *)
C4_ConnectionError ==
    (Answered("/write") /\ Called /\ RaisedIs("ConnectionError")) =>
        /\ Len(returned) = 1
        /\ IF RaisedIs("Timeout")
           THEN ResponseMessage(Resp)[Len(ResponseMessage(Resp))]
                    = "Request timeout - Notion API did not respond in time"
                /\ Resp.code # 503
           ELSE IF request.is_json
           THEN IsJson(Resp, 503, "error", <<"Connection error - Unable to reach Notion API">>)
           ELSE IsFlash(Resp, "error",
                        <<"Error: ", "Connection error - Unable to reach Notion API">>)

\* a JSON request whose outbound call could not connect has been answered
C4_Witness ==
    /\ Answered("/write") /\ Called /\ RaisedIs("ConnectionError") /\ ~RaisedIs("Timeout")
    /\ request.is_json

\* C4 as stated: every request whose call fails to connect is answered with HTTP 503
C4_Original ==
    (Answered("/write") /\ Called /\ RaisedIs("ConnectionError")) =>
        /\ Resp.code = 503
        /\ ResponseMessage(Resp)[Len(ResponseMessage(Resp))]
              = "Connection error - Unable to reach Notion API"

----------------------------------------------------------------------------
(* C5: when the external API answers the outbound call with status s, the   *)
(* handler reports success if and only if s = 200: a JSON 200 with status   *)
(* "success" or a redirect with a success flash; for any other s a JSON     *)
(* response of HTTP status s or a redirect with an error flash, whose       *)
(* message includes the number s.                                           *)
C5_UpstreamStatus ==
    (Answered("/write") /\ api_response.type = "response") =>
        LET s == api_response.status_code
        IN /\ Len(returned) = 1
           /\ IF request.is_json
              THEN /\ Resp.kind = "json"
                   /\ Resp.body.status = (IF s = 200 THEN "success" ELSE "error")
                   /\ Resp.code = s
                   /\ s # 200 => IncludesNumber(Resp.body.message, s)
              ELSE /\ Resp.kind = "redirect"
                   /\ Resp.flash.category = (IF s = 200 THEN "success" ELSE "error")
                   /\ s # 200 => IncludesNumber(Resp.flash.message, s)

\* a JSON request whose call was answered 201 has been answered as a failure
C5_Witness ==
    /\ Answered("/write") /\ api_response.type = "response"
    /\ api_response.status_code = 201
    /\ request.is_json /\ Resp.body.status = "error"

----------------------------------------------------------------------------
ExpectedValidation ==
    IF ~TokenPresent THEN <<FALSE, <<"NOTION_TOKEN environment variable is required">>>>
    ELSE IF ~PageIdPresent
         THEN <<FALSE, <<"NOTION_PAGE_ID environment variable is required">>>>
         ELSE <<TRUE, <<"Configuration valid">>>>

ValidationReported ==
    /\ (Handling("/write") /\ pc # "/write") =>
           /\ config_result[1] = ExpectedValidation[1]
           /\ config_result[2] = ExpectedValidation[2]
           /\ config_result[1] <=> ConfigPresent
    /\ Answered("/") =>
           /\ Resp.config_valid = ExpectedValidation[1]
           /\ Resp.config_message = ExpectedValidation[2]

(* C6: validate_notion_config reports valid exactly when the credential and *)
(* the page identifier are both present and non-empty; with the credential  *)
(* missing its message names the credential, whatever the identifier; with  *)
(* only the identifier missing it names the identifier.  No handler that    *)
(* calls it changes the configuration.                                      *)
C6_ValidateConfig == []ValidationReported /\ [][UNCHANGED configVars]_vars

\* write_note has validated a configuration that lacks both values
C6_Witness ==
    /\ Handling("/write") /\ pc # "/write"
    /\ ~TokenPresent /\ ~PageIdPresent
    /\ config_result[1] = FALSE

----------------------------------------------------------------------------
(* C7: in every configuration GET /health is answered with HTTP 200 and     *)
(* status "healthy", notion_configured and message being the validity and   *)
(* the message of that configuration, and issues no outbound call.          *)
C7_Health ==
    Handling("/health") =>
        /\ ~Called
        /\ pc = "done" =>
              /\ Len(returned) = 1
              /\ Resp.kind = "json" /\ Resp.code = 200
              /\ Resp.body.status = "healthy"
              /\ Resp.body.notion_configured = ConfigPresent
              /\ Resp.body.message = ExpectedValidation[2]

\* the health endpoint has answered with the credential missing
C7_Witness ==
    /\ Answered("/health") /\ ~TokenPresent /\ PageIdPresent
    /\ Resp.code = 200 /\ Resp.body.notion_configured = FALSE

----------------------------------------------------------------------------
\* the request fails one of the three checks made before the outbound call:
\* the configuration, then the content, then the identifier
CheckFails ==
    \/ ~ConfigPresent
    \/ ContentBlank
    \/ ContentText /\ Len(PAGE_ID.val) # 32

(* C8: a POST /write that declares a JSON content type is always answered   *)
(* with a JSON status object.  A form request is answered with a redirect   *)
(* and a flash message when its outcome is success, an upstream status, a   *)
(* timeout, a connection error or an unexpected error; when it fails the    *)
(* configuration, content or identifier check it is answered with a JSON    *)
(* status object of HTTP 400 all the same.                                  *)
C8_ResponseShape ==
    Answered("/write") =>
        /\ Len(returned) = 1
        /\ IF request.is_json THEN Resp.kind = "json" /\ Resp.body.status \in {"success", "error"}
           ELSE IF CheckFails THEN Resp.kind = "json" /\ Resp.code = 400
           ELSE Resp.kind = "redirect" /\ Resp.flash.category \in {"success", "error"}

\* a form request has been answered with a redirect after an upstream error
C8_Witness ==
    /\ Answered("/write") /\ ~request.is_json
    /\ api_response.type = "response" /\ api_response.status_code = 404
    /\ Resp.kind = "redirect"

\* C8 as stated: the inbound content type alone selects the shape
C8_Original ==
    Answered("/write") =>
        IF request.is_json THEN Resp.kind = "json" ELSE Resp.kind = "redirect"

----------------------------------------------------------------------------
(* C9: a POST /write is a single pass: at most one outbound call is issued  *)
(* while it is handled, whatever the outcome, and only after the            *)
(* configuration was validated, the trimmed content found non-empty and the *)
(* identifier formatted, in this order; a request that fails one of these   *)
(* checks is answered with HTTP 400 and has issued no call.                 *)
C9_SinglePass ==
    Handling("/write") =>
        /\ Len(outbound) <= 1
        /\ Called =>
              /\ ConfigPresent /\ ContentText /\ Len(PAGE_ID.val) = 32
              /\ SubSeq(steps, 1, 4) = <<"config_valid", "content_nonempty", "id_formatted", "call">>
              /\ config_result[1] = TRUE
              /\ content.type = "str" /\ content.val # <<>>
              /\ block_id.type = "str"
        /\ CheckFails => ~Called
        /\ (pc = "done" /\ CheckFails) => Len(returned) = 1 /\ Resp.code = 400

\* the outbound call failed and the request has been answered after one call
C9_Witness ==
    /\ Answered("/write") /\ Len(outbound) = 1
    /\ raised.type = "exception"

----------------------------------------------------------------------------
Unclassified ==
    raised.type = "exception" /\ ~RaisedIs("Timeout") /\ ~RaisedIs("ConnectionError")

NoDetail(message) ==
    \A i \in 1..Len(message) : \A j \in 1..Len(raised.detail) : message[i] # raised.detail[j]

(* C10: every POST /write is answered exactly once and no step of its       *)
(* handling is left without a continuation; a failure that is none of the   *)
(* classified ones (such as a JSON content that is no string, or a JSON     *)
(* body that is no object) gives a JSON request HTTP 500 with the fixed     *)
(* message "An unexpected error occurred" and a form request a redirect     *)
(* whose error flash carries that message, without detail of the error.     *)
C10_Unexpected ==
    Handling("/write") =>
        /\ pc # "done" => (ENABLED Next /\ returned = <<>>)
        /\ pc = "done" => Len(returned) = 1
        /\ (pc = "done" /\ Unclassified) =>
              /\ IF request.is_json
                 THEN IsJson(Resp, 500, "error", <<"An unexpected error occurred">>)
                 ELSE IsFlash(Resp, "error", <<"Error: ", "An unexpected error occurred">>)
              /\ NoDetail(ResponseMessage(Resp))

\* a JSON request whose content is a number has been answered
C10_Witness ==
    /\ Answered("/write") /\ Unclassified
    /\ request.is_json /\ request.json.type = "dict"
    /\ HasContentField(request.json) /\ ContentField(request.json).type = "int"

\* C10 as stated: every unclassified failure is answered with HTTP 500
C10_Original ==
    (Answered("/write") /\ Unclassified) =>
        /\ Resp.code = 500
        /\ ResponseMessage(Resp)[Len(ResponseMessage(Resp))] = "An unexpected error occurred"

====
